---- MODULE Spec2Model ----
(***************************************************************************)
(* Model of backend/server.py: the rook-versus-bishop dice game.           *)
(*                                                                         *)
(* The program state is GameService.games, a dictionary from game_id to a  *)
(* pair {"state": GameState, "board": Board}.  Every HTTP handler is an    *)
(* `async def` without an await in its body, so each handler runs to       *)
(* completion on the event loop: one action per handler.  The value a      *)
(* handler returns (or the HTTPException it raises) is kept in `response`. *)
(* SpecRace alone runs play_round and reset_game statement by statement,   *)
(* as the specification's concurrency model has them interleave; there the *)
(* store holds references into `heap`.                                     *)
(* GameState.created_at (a wall-clock timestamp) is not modelled.          *)
(***************************************************************************)
EXTENDS Integers, Sequences, FiniteSets, TLC

VARIABLES
    games,      \* GameService.games: game_id -> [state, board]
    response,   \* what the last handler returned to its caller
    args,       \* inputs of a pure function under test (SpecWrap, SpecCapture)
    result,     \* its value, once applied
    heap,       \* SpecRace: the GameState and Board objects, by address
    frames      \* SpecRace: position and locals of the requests in flight

vars == <<games, response, args, result, heap, frames>>

----------------------------------------------------------------------------
(* Bounds of the model *)

\* uuid4 draws identifiers from 1..MaxGames
MaxGames == 2
\* Spec stops recording rounds once the store holds this many
MaxPlays == 1
\* largest magnitude handed to wrap_coordinates in SpecWrap
MaxMagnitude == 13

(* Program constants *)

BoardSize == 8
DieFaces == 6
RoundLimit == 15

GameIds == 1 .. MaxGames
\* an identifier uuid4 never issued ("invalid-id-123" in backend_test.py)
InvalidId == 0
RequestIds == GameIds \cup {InvalidId}

Coins == {"heads", "tails"}
Die == 1 .. DieFaces
\* every (coin, die1, die2) the random module can produce
AllDraws == Coins \X Die \X Die
\* the draws explored by Spec: both sides of the coin and every total 2..12
SpecDraws == Coins \X {1, DieFaces} \X Die
\* the draws explored by SpecLong, which plays whole games:
\* tails with 1+1 (right 2) and heads with 1+2 (up 3)
LongDraws == {<<"tails", 1, 1>>, <<"heads", 1, 2>>}

BishopWins == "Bishop (White)"
RookWins == "Rook (Black)"
None == "None"

Abs(n) == IF n < 0 THEN -n ELSE n

----------------------------------------------------------------------------
(* Piece, Bishop, Rook *)

Files == <<"a", "b", "c", "d", "e", "f", "g", "h">>

\* chr(ord('a') + x)
FileOf(x) == Files[x + 1]

\* mutant: the rank is the internal y, without the + 1
get_position_RankIsY(piece) ==
    [file |-> FileOf(piece.x), rank |-> piece.y, x |-> piece.x, y |-> piece.y]

\* Piece.get_position
get_position(piece) ==
    [file |-> FileOf(piece.x), rank |-> piece.y + 1, x |-> piece.x, y |-> piece.y]

\* Piece.set_position
set_position(piece, x, y) == [piece EXCEPT !.x = x, !.y = y]

Bishop(position) ==
    [piece_type |-> "bishop", color |-> "white", x |-> position[1], y |-> position[2]]

Rook(position) ==
    [piece_type |-> "rook", color |-> "black", x |-> position[1], y |-> position[2]]

\* mutant: dx and dy compared without abs(), so only one diagonal captures
Bishop_can_capture_OneDiagonal(self, target_x, target_y) ==
    LET dx == target_x - self.x
        dy == target_y - self.y
    IN  dx = dy /\ dx # 0

\* mutant: the dx > 0 test is dropped, so the bishop's own square captures
Bishop_can_capture_OwnSquare(self, target_x, target_y) ==
    Abs(target_x - self.x) = Abs(target_y - self.y)

Bishop_can_capture(self, target_x, target_y) ==
    LET dx == Abs(target_x - self.x)
        dy == Abs(target_y - self.y)
    IN  dx = dy /\ dx > 0

Rook_can_capture(self, target_x, target_y) ==
    \/ (self.x = target_x /\ self.y # target_y)
    \/ (self.y = target_y /\ self.x # target_x)

----------------------------------------------------------------------------
(* Board *)

\* mutant: the rook starts on a1 instead of h1
Board_RookOnA1 ==
    [size |-> BoardSize, bishop |-> Bishop(<<2, 2>>), rook |-> Rook(<<0, 0>>)]

Board ==
    [size |-> BoardSize, bishop |-> Bishop(<<2, 2>>), rook |-> Rook(<<7, 0>>)]

\* mutant: only x is wrapped
wrap_coordinates_XOnly(board, x, y) == <<x % board.size, y>>

wrap_coordinates(board, x, y) == <<x % board.size, y % board.size>>

\* mutant: "up" adds to x and "right" adds to y
move_rook_AxesSwapped(board, direction, squares) ==
    LET new_x == IF direction = "up" THEN board.rook.x + squares ELSE board.rook.x
        new_y == IF direction = "up" THEN board.rook.y ELSE board.rook.y + squares
        w == wrap_coordinates(board, new_x, new_y)
    IN  [board EXCEPT !.rook = set_position(board.rook, w[1], w[2])]

\* mutant: the new coordinates are set on the bishop as well as on the rook
move_rook_BishopToo(board, direction, squares) ==
    LET new_x == IF direction = "up" THEN board.rook.x ELSE board.rook.x + squares
        new_y == IF direction = "up" THEN board.rook.y + squares ELSE board.rook.y
        w == wrap_coordinates(board, new_x, new_y)
    IN  [board EXCEPT !.rook = set_position(board.rook, w[1], w[2]),
                      !.bishop = set_position(board.bishop, w[1], w[2])]

\* Board.move_rook: the board after the move (the rook is updated in place)
move_rook(board, direction, squares) ==
    LET new_x == IF direction = "up" THEN board.rook.x ELSE board.rook.x + squares
        new_y == IF direction = "up" THEN board.rook.y + squares ELSE board.rook.y
        w == wrap_coordinates(board, new_x, new_y)
    IN  [board EXCEPT !.rook = set_position(board.rook, w[1], w[2])]

check_capture(board) ==
    Bishop_can_capture(board.bishop, board.rook.x, board.rook.y)

----------------------------------------------------------------------------
(* Game models *)

CoinToss(coin_result) ==
    [result |-> coin_result,
     direction |-> IF coin_result = "heads" THEN "up" ELSE "right"]

DiceRoll(die1, die2) == [die1 |-> die1, die2 |-> die2, total |-> die1 + die2]

\* GameState(...) with its field defaults
GameState(game_id, board) ==
    [game_id |-> game_id,
     rounds |-> <<>>,
     current_round |-> 0,
     game_over |-> FALSE,
     winner |-> None,
     bishop_position |-> get_position(board.bishop),
     rook_position |-> get_position(board.rook)]

\* the pair stored under a game_id by create_game and reset_game
NewGameData(game_id) ==
    LET board == Board
    IN  [state |-> GameState(game_id, board), board |-> board]

----------------------------------------------------------------------------
(* GameService *)

EmptyStore == [id \in {} |-> id]

\* str(uuid.uuid4()): an identifier that is not yet a key of the store
uuid4(store) == GameIds \ DOMAIN store

\* mutant: the store is replaced by one holding only the new game
GameService_create_game_Replace(store, game_id) ==
    [id \in {game_id} |-> NewGameData(game_id)]

\* GameService.create_game: the store after the call
GameService_create_game(store, game_id) ==
    [id \in DOMAIN store \cup {game_id} |->
        IF id = game_id THEN NewGameData(game_id) ELSE store[id]]

\* mutant: the round limit is tested before the capture
GameOverConditions_LimitFirst(game_state, captured) ==
    IF game_state.current_round >= RoundLimit
    THEN [game_state EXCEPT !.game_over = TRUE, !.winner = RookWins]
    ELSE IF captured
         THEN [game_state EXCEPT !.game_over = TRUE, !.winner = BishopWins]
         ELSE game_state

\* mutant: `>` instead of `>=`, so round 15 does not end the game
GameOverConditions_StrictLimit(game_state, captured) ==
    IF captured
    THEN [game_state EXCEPT !.game_over = TRUE, !.winner = BishopWins]
    ELSE IF game_state.current_round > RoundLimit
         THEN [game_state EXCEPT !.game_over = TRUE, !.winner = RookWins]
         ELSE game_state

\* mutant: a capture ends the game but the winner is left unset
GameOverConditions_NoWinner(game_state, captured) ==
    IF captured
    THEN [game_state EXCEPT !.game_over = TRUE]
    ELSE IF game_state.current_round >= RoundLimit
         THEN [game_state EXCEPT !.game_over = TRUE, !.winner = RookWins]
         ELSE game_state

\* the game-over conditions that end play_round
GameOverConditions(game_state, captured) ==
    IF captured
    THEN [game_state EXCEPT !.game_over = TRUE, !.winner = BishopWins]
    ELSE IF game_state.current_round >= RoundLimit
         THEN [game_state EXCEPT !.game_over = TRUE, !.winner = RookWins]
         ELSE game_state

\* mutant: the round counter is not incremented
IncrementRound_Forgotten(game_state) == game_state.current_round

\* game_state.current_round += 1
IncrementRound(game_state) == game_state.current_round + 1

\* mutant: state.rook_position is not updated
RecordRound_StaleRook(game_state, game_round, position_after) ==
    [game_state EXCEPT !.rounds = Append(game_state.rounds, game_round)]

\* mutant: the round is inserted at the front of the history
RecordRound_Prepend(game_state, game_round, position_after) ==
    [game_state EXCEPT !.rounds = <<game_round>> \o game_state.rounds,
                       !.rook_position = position_after]

\* game_state.rounds.append(game_round); game_state.rook_position = position_after
RecordRound(game_state, game_round, position_after) ==
    [game_state EXCEPT !.rounds = Append(game_state.rounds, game_round),
                       !.rook_position = position_after]

\* the body of play_round below its game_over test: one recorded round
ResolveRound(game_data, coin_result, die1, die2) ==
    LET game_state == game_data.state
        board == game_data.board
        current_round == IncrementRound(game_state)
        position_before == get_position(board.rook)
        coin_toss == CoinToss(coin_result)
        dice_roll == DiceRoll(die1, die2)
        moved == move_rook(board, coin_toss.direction, dice_roll.total)
        position_after == get_position(moved.rook)
        captured == check_capture(moved)
        game_round ==
            [round_number |-> current_round,
             coin_toss |-> coin_toss,
             dice_roll |-> dice_roll,
             rook_position_before |-> position_before,
             rook_position_after |-> position_after,
             captured |-> captured]
        recorded ==
            RecordRound([game_state EXCEPT !.current_round = current_round],
                        game_round, position_after)
    IN  [state |-> GameOverConditions(recorded, captured), board |-> moved]

\* mutant: the game_over test is missing
GameService_play_round_NoGuard(game_data, coin_result, die1, die2) ==
    ResolveRound(game_data, coin_result, die1, die2)

\* GameService.play_round on a stored pair: the pair after the call
GameService_play_round(game_data, coin_result, die1, die2) ==
    IF game_data.state.game_over
    THEN game_data
    ELSE ResolveRound(game_data, coin_result, die1, die2)

----------------------------------------------------------------------------
(* API routes *)

Ok(op, game_id, game_state) ==
    [op |-> op, game_id |-> game_id, status |-> 200, body |-> game_state]

\* HTTPException(status_code=404, detail="Game not found")
NotFound(op, game_id) ==
    [op |-> op, game_id |-> game_id, status |-> 404,
     body |-> [detail |-> "Game not found"]]

NoResponse == [op |-> "none", game_id |-> InvalidId, status |-> 0, body |-> [detail |-> ""]]
NoArgs == [fn |-> "none"]
NoResult == [fn |-> "none"]
NoHeap == [address \in {} |-> address]
NoFrames == [request \in {} |-> request]

\* POST /game
create_game ==
    /\ \E game_id \in uuid4(games) :
          /\ games' = GameService_create_game(games, game_id)
          /\ response' = Ok("create_game", game_id, games'[game_id].state)
    /\ UNCHANGED <<args, result, heap, frames>>

\* GET /game/{game_id}
get_game(game_id) ==
    /\ response' = IF game_id \in DOMAIN games
                   THEN Ok("get_game", game_id, games[game_id].state)
                   ELSE NotFound("get_game", game_id)
    /\ UNCHANGED <<games, args, result, heap, frames>>

\* POST /game/{game_id}/round; the random module draws from `draws`, and only
\* when the round is played
play_round(game_id, draws) ==
    /\ IF game_id \in DOMAIN games
       THEN /\ \E draw \in (IF games[game_id].state.game_over
                            THEN {CHOOSE d \in draws : TRUE} ELSE draws) :
                  games' = [games EXCEPT ![game_id] =
                      GameService_play_round(@, draw[1], draw[2], draw[3])]
            /\ response' = Ok("play_round", game_id, games'[game_id].state)
       ELSE /\ games' = games
            /\ response' = NotFound("play_round", game_id)
    /\ UNCHANGED <<args, result, heap, frames>>

\* mutant: reset stores a new GameState but keeps the old board
reset_game_KeepBoard(game_id) ==
    /\ IF game_id \in DOMAIN games
       THEN /\ games' = [games EXCEPT ![game_id].state = NewGameData(game_id).state]
            /\ response' = Ok("reset_game", game_id, games'[game_id].state)
       ELSE /\ games' = games
            /\ response' = NotFound("reset_game", game_id)
    /\ UNCHANGED <<args, result, heap, frames>>

\* mutant: reset without the membership test stores a game under any identifier
reset_game_NoCheck(game_id) ==
    /\ games' = GameService_create_game(games, game_id)
    /\ response' = Ok("reset_game", game_id, games'[game_id].state)
    /\ UNCHANGED <<args, result, heap, frames>>

\* mutant: reset replaces the whole store by one holding only the reset game
reset_game_ClearsStore(game_id) ==
    /\ IF game_id \in DOMAIN games
       THEN /\ games' = [id \in {game_id} |-> NewGameData(game_id)]
            /\ response' = Ok("reset_game", game_id, games'[game_id].state)
       ELSE /\ games' = games
            /\ response' = NotFound("reset_game", game_id)
    /\ UNCHANGED <<args, result, heap, frames>>

\* POST /game/{game_id}/reset
reset_game(game_id) ==
    /\ IF game_id \in DOMAIN games
       THEN /\ games' = [games EXCEPT ![game_id] = NewGameData(game_id)]
            /\ response' = Ok("reset_game", game_id, games'[game_id].state)
       ELSE /\ games' = games
            /\ response' = NotFound("reset_game", game_id)
    /\ UNCHANGED <<args, result, heap, frames>>

----------------------------------------------------------------------------
(* Specifications *)

RECURSIVE SumRounds(_, _)
SumRounds(store, ids) ==
    IF ids = {} THEN 0
    ELSE LET id == CHOOSE i \in ids : TRUE
         IN  Len(store[id].state.rounds) + SumRounds(store, ids \ {id})

\* the number of rounds recorded in the whole store
RoundsInStore(store) == SumRounds(store, DOMAIN store)

\* play_round(game_id) would record a round
Recording(game_id) ==
    game_id \in DOMAIN games /\ ~games[game_id].state.game_over

Init ==
    /\ games = EmptyStore
    /\ response = NoResponse
    /\ args = NoArgs
    /\ result = NoResult
    /\ heap = NoHeap
    /\ frames = NoFrames

\* Spec: every request against a store of up to MaxGames sessions, every
\* side of the coin and total of the dice, at most MaxPlays recorded rounds in store.
PlayAny ==
    \E game_id \in RequestIds :
        /\ Recording(game_id) => RoundsInStore(games) < MaxPlays
        /\ play_round(game_id, SpecDraws)

Create == create_game
Get == \E game_id \in RequestIds : get_game(game_id)
Reset == \E game_id \in RequestIds : reset_game(game_id)

Next == Create \/ Get \/ PlayAny \/ Reset

Spec == Init /\ [][Next]_vars

\* SpecLong: one session played to its end (RoundLimit rounds or a capture),
\* the coin and the dice drawn from LongDraws.
CreateOne == games = EmptyStore /\ create_game

PlayLong == \E game_id \in RequestIds : play_round(game_id, LongDraws)

NextLong == CreateOne \/ Get \/ PlayLong \/ Reset

SpecLong == Init /\ [][NextLong]_vars

----------------------------------------------------------------------------
(* Pure functions, applied to inputs drawn by Init *)

Coordinates == 0 .. (BoardSize - 1)

\* SpecWrap: Board.wrap_coordinates on a square moved right or up by magnitude
InitWrap ==
    /\ games = EmptyStore
    /\ response = NoResponse
    /\ args \in [fn : {"wrap_coordinates"}, x : Coordinates, y : Coordinates,
                 magnitude : 0 .. MaxMagnitude]
    /\ result = NoResult
    /\ heap = NoHeap
    /\ frames = NoFrames

WrapRight ==
    /\ args.fn = "wrap_coordinates"
    /\ result' = [fn |-> "right",
                  value |-> wrap_coordinates(Board, args.x + args.magnitude, args.y)]
    /\ UNCHANGED <<games, response, args, heap, frames>>

WrapUp ==
    /\ args.fn = "wrap_coordinates"
    /\ result' = [fn |-> "up",
                  value |-> wrap_coordinates(Board, args.x, args.y + args.magnitude)]
    /\ UNCHANGED <<games, response, args, heap, frames>>

NextWrap == WrapRight \/ WrapUp

SpecWrap == InitWrap /\ [][NextWrap]_vars

\* SpecCapture: can_capture of a piece on (x, y) against a target square
InitCapture ==
    /\ games = EmptyStore
    /\ response = NoResponse
    /\ args \in [fn : {"can_capture"}, x : Coordinates, y : Coordinates,
                 target_x : Coordinates, target_y : Coordinates]
    /\ result = NoResult
    /\ heap = NoHeap
    /\ frames = NoFrames

BishopCapture ==
    /\ args.fn = "can_capture"
    /\ result' = [fn |-> "bishop",
                  value |-> Bishop_can_capture(Bishop(<<args.x, args.y>>),
                                               args.target_x, args.target_y)]
    /\ UNCHANGED <<games, response, args, heap, frames>>

RookCapture ==
    /\ args.fn = "can_capture"
    /\ result' = [fn |-> "rook",
                  value |-> Rook_can_capture(Rook(<<args.x, args.y>>),
                                             args.target_x, args.target_y)]
    /\ UNCHANGED <<games, response, args, heap, frames>>

NextCapture == BishopCapture \/ RookCapture

SpecCapture == InitCapture /\ [][NextCapture]_vars

----------------------------------------------------------------------------
(* SpecRace: one play_round client and one reset client on the same game,   *)
(* their handlers run statement by statement.  games[id] holds the          *)
(* addresses of the stored GameState and Board; heap[a] holds the GameState *)
(* and the Board built together at address a.                               *)

\* play_round requests the first client issues
MaxRacePlays == 4
\* reset requests the second client issues
MaxRaceResets == 2

\* the store, a play_round in flight and a reset in flight each hold one pair
Addresses == 1 .. 3
Null == 0

\* the game both clients address
RaceId == CHOOSE game_id \in GameIds : TRUE

NoLocals == [set |-> FALSE]

Idle(left) ==
    [pc |-> "idle", left |-> left, state |-> Null, board |-> Null, locals |-> NoLocals]

\* the addresses still referenced from the store or from a frame
Live(store, frms) ==
    ({store[id].state : id \in DOMAIN store} \cup {store[id].board : id \in DOMAIN store}
        \cup {frms[r].state : r \in DOMAIN frms} \cup {frms[r].board : r \in DOMAIN frms})
    \ {Null}

\* garbage collection: objects no reference reaches are gone
Collect(objects, store, frms) ==
    [a \in DOMAIN objects \cap Live(store, frms) |-> objects[a]]

\* the store after create_game has answered once
InitRace ==
    /\ games = [id \in {RaceId} |-> [state |-> 1, board |-> 1]]
    /\ heap = [a \in {1} |-> NewGameData(RaceId)]
    /\ frames = [play |-> Idle(MaxRacePlays), reset |-> Idle(MaxRaceResets)]
    /\ response = Ok("create_game", RaceId, NewGameData(RaceId).state)
    /\ args = NoArgs
    /\ result = NoResult

\* play_round, lines 174-179: the membership test and the three lookups
PlayLookup ==
    /\ frames.play.pc = "idle"
    /\ frames.play.left > 0
    /\ IF RaceId \in DOMAIN games
       THEN /\ frames' = [frames EXCEPT !.play =
                    [@ EXCEPT !.pc = "guard", !.left = @ - 1,
                              !.state = games[RaceId].state,
                              !.board = games[RaceId].board]]
            /\ response' = response
       ELSE /\ frames' = [frames EXCEPT !.play.left = @ - 1]
            /\ response' = NotFound("play_round", RaceId)
    /\ UNCHANGED <<games, heap, args, result>>

\* play_round, lines 181-182: a terminal game is returned as it is
PlayGuard ==
    /\ frames.play.pc = "guard"
    /\ IF heap[frames.play.state].state.game_over
       THEN /\ response' = Ok("play_round", RaceId, heap[frames.play.state].state)
            /\ frames' = [frames EXCEPT !.play = Idle(@.left)]
            /\ heap' = Collect(heap, games, frames')
       ELSE /\ frames' = [frames EXCEPT !.play.pc = "increment"]
            /\ UNCHANGED <<response, heap>>
    /\ UNCHANGED <<games, args, result>>

\* play_round, line 185
PlayIncrement ==
    /\ frames.play.pc = "increment"
    /\ heap' = [heap EXCEPT ![frames.play.state].state.current_round =
                   IncrementRound(heap[frames.play.state].state)]
    /\ frames' = [frames EXCEPT !.play.pc = "move"]
    /\ UNCHANGED <<games, response, args, result>>

\* play_round, lines 188-203: the position before, the coin, the dice, the move
PlayMove ==
    /\ frames.play.pc = "move"
    /\ \E draw \in LongDraws :
          LET board == heap[frames.play.board].board
              coin_toss == CoinToss(draw[1])
              dice_roll == DiceRoll(draw[2], draw[3])
              moved == move_rook(board, coin_toss.direction, dice_roll.total)
          IN  /\ heap' = [heap EXCEPT ![frames.play.board].board = moved]
              /\ frames' = [frames EXCEPT !.play.pc = "record", !.play.locals =
                     [set |-> TRUE,
                      position_before |-> get_position(board.rook),
                      coin_toss |-> coin_toss,
                      dice_roll |-> dice_roll,
                      position_after |-> get_position(moved.rook),
                      captured |-> FALSE]]
    /\ UNCHANGED <<games, response, args, result>>

\* play_round, lines 206-219: the capture test and the round record
PlayRecord ==
    /\ frames.play.pc = "record"
    /\ LET game_state == heap[frames.play.state].state
           locals == frames.play.locals
           captured == check_capture(heap[frames.play.board].board)
           game_round ==
               [round_number |-> game_state.current_round,
                coin_toss |-> locals.coin_toss,
                dice_roll |-> locals.dice_roll,
                rook_position_before |-> locals.position_before,
                rook_position_after |-> locals.position_after,
                captured |-> captured]
       IN  /\ heap' = [heap EXCEPT ![frames.play.state].state =
                          RecordRound(game_state, game_round, locals.position_after)]
           /\ frames' = [frames EXCEPT !.play.pc = "over",
                                       !.play.locals.captured = captured]
    /\ UNCHANGED <<games, response, args, result>>

\* play_round, lines 222-229: the game-over conditions and the return
PlayOver ==
    /\ frames.play.pc = "over"
    /\ LET game_state == GameOverConditions(heap[frames.play.state].state,
                                            frames.play.locals.captured)
       IN  /\ response' = Ok("play_round", RaceId, game_state)
           /\ frames' = [frames EXCEPT !.play = Idle(@.left)]
           /\ heap' = Collect([heap EXCEPT ![frames.play.state].state = game_state],
                              games, frames')
    /\ UNCHANGED <<games, args, result>>

\* reset_game, lines 263-264
ResetCheck ==
    /\ frames.reset.pc = "idle"
    /\ frames.reset.left > 0
    /\ IF RaceId \in DOMAIN games
       THEN /\ frames' = [frames EXCEPT !.reset.pc = "build", !.reset.left = @ - 1]
            /\ response' = response
       ELSE /\ frames' = [frames EXCEPT !.reset.left = @ - 1]
            /\ response' = NotFound("reset_game", RaceId)
    /\ UNCHANGED <<games, heap, args, result>>

\* reset_game, lines 267-272: a new Board and a new GameState
ResetBuild ==
    /\ frames.reset.pc = "build"
    /\ LET address == CHOOSE a \in Addresses \ DOMAIN heap :
                          \A b \in Addresses \ DOMAIN heap : a <= b
       IN  /\ heap' = [a \in DOMAIN heap \cup {address} |->
                          IF a = address THEN NewGameData(RaceId) ELSE heap[a]]
           /\ frames' = [frames EXCEPT !.reset.pc = "write",
                                       !.reset.state = address,
                                       !.reset.board = address]
    /\ UNCHANGED <<games, response, args, result>>

\* mutant: only the "state" key of the stored entry is assigned
ResetWrite_StateOnly ==
    /\ frames.reset.pc = "write"
    /\ games' = [games EXCEPT ![RaceId].state = frames.reset.state]
    /\ response' = Ok("reset_game", RaceId, heap[frames.reset.state].state)
    /\ frames' = [frames EXCEPT !.reset = Idle(@.left)]
    /\ heap' = Collect(heap, games', frames')
    /\ UNCHANGED <<args, result>>

\* reset_game, lines 274-279: the entry is replaced in one assignment
ResetWrite ==
    /\ frames.reset.pc = "write"
    /\ games' = [games EXCEPT ![RaceId] =
                    [state |-> frames.reset.state, board |-> frames.reset.board]]
    /\ response' = Ok("reset_game", RaceId, heap[frames.reset.state].state)
    /\ frames' = [frames EXCEPT !.reset = Idle(@.left)]
    /\ heap' = Collect(heap, games', frames')
    /\ UNCHANGED <<args, result>>

NextRace ==
    \/ PlayLookup \/ PlayGuard \/ PlayIncrement \/ PlayMove \/ PlayRecord \/ PlayOver
    \/ ResetCheck \/ ResetBuild \/ ResetWrite

SpecRace == InitRace /\ [][NextRace]_vars

----------------------------------------------------------------------------
(* Properties *)

Sessions == DOMAIN games

LastRound(game_state) == game_state.rounds[Len(game_state.rounds)]

LastCaptured(game_state) ==
    game_state.rounds # <<>> /\ LastRound(game_state).captured

NoCapture(game_state) ==
    \A i \in DOMAIN game_state.rounds : ~game_state.rounds[i].captured

\* this step is a play_round request for game_id (a handler always overwrites
\* response with its own op, so response' names the handler that ran)
PlayRoundStep(game_id) ==
    response'.op = "play_round" /\ response'.game_id = game_id

\* the state create_game and reset_game are specified to produce
InitialState(game_id) ==
    [game_id |-> game_id,
     rounds |-> <<>>,
     current_round |-> 0,
     game_over |-> FALSE,
     winner |-> None,
     bishop_position |-> [file |-> "c", rank |-> 3, x |-> 2, y |-> 2],
     rook_position |-> [file |-> "h", rank |-> 1, x |-> 7, y |-> 0]]

\* C1 (state part): a session never passes round 15, is terminal at round 15,
\* and a terminal session has exactly one winner: the bishop if its last round
\* captured (also on round 15), otherwise the rook, at round 15.
C1_Winner ==
    \A id \in Sessions :
        LET game_state == games[id].state
        IN  /\ game_state.current_round \in 0 .. 15
            /\ game_state.current_round = 15 => game_state.game_over
            /\ game_state.game_over =>
                  /\ game_state.winner \in {BishopWins, RookWins}
                  /\ LastCaptured(game_state) => game_state.winner = BishopWins
                  /\ ~LastCaptured(game_state) =>
                        game_state.winner = RookWins /\ game_state.current_round = 15

\* C1 (step part): every play_round on a session that is not yet terminal moves
\* current_round up by exactly one, and the 15th such call ends the game.
C1_Advance ==
    \A id \in Sessions :
        PlayRoundStep(id) /\ ~games[id].state.game_over =>
            /\ games'[id].state.current_round = games[id].state.current_round + 1
            /\ games[id].state.current_round = 14 => games'[id].state.game_over

\* C1: a session is terminal after at most 15 play_round calls, with the bishop
\* as winner if the last round captured and the rook otherwise.
C1_Termination == []C1_Winner /\ [][C1_Advance]_vars

\* C1 witness: a capture on round 15, won by the bishop
C1_Witness ==
    \E id \in Sessions :
        /\ games[id].state.current_round = 15
        /\ LastCaptured(games[id].state)
        /\ games[id].state.game_over
        /\ games[id].state.winner = BishopWins
        /\ response.op = "play_round"

\* C2: play_round on a session that is already terminal changes nothing in the
\* store (state and board alike) and returns the stored state.
C2_TerminalNoOp ==
    [][\A id \in Sessions :
          PlayRoundStep(id) /\ games[id].state.game_over =>
              /\ games' = games
              /\ response'.status = 200
              /\ response'.body = games[id].state]_vars

\* C2 witness: a play_round answered for a terminal session whose store entry
\* is the state returned
C2_Witness ==
    \E id \in Sessions :
        /\ games[id].state.game_over
        /\ games[id].state.current_round < 15
        /\ response = Ok("play_round", id, games[id].state)

\* C3 (state part): the history is as long as the counter says, the counter is
\* in 0..15, and the i-th round is numbered i.
C3_Counted ==
    \A id \in Sessions :
        LET game_state == games[id].state
        IN  /\ Len(game_state.rounds) = game_state.current_round
            /\ game_state.current_round \in 0 .. 15
            /\ \A i \in DOMAIN game_state.rounds :
                  game_state.rounds[i].round_number = i

\* C3 (step part): a play_round on a non-terminal session makes the history one
\* round longer, and the counter equal to the new length.
C3_OneMore ==
    \A id \in Sessions :
        PlayRoundStep(id) /\ ~games[id].state.game_over =>
            /\ Len(games'[id].state.rounds) = Len(games[id].state.rounds) + 1
            /\ games'[id].state.current_round = Len(games'[id].state.rounds)

\* C3: after k play_round calls on a not yet terminal session the history has
\* length k and current_round is k.
C3_RoundCount == []C3_Counted /\ [][C3_OneMore]_vars

\* C3 witness: a session in mid-game, five rounds played
C3_Witness ==
    \E id \in Sessions :
        /\ Len(games[id].state.rounds) = 5
        /\ games[id].state.current_round = 5
        /\ ~games[id].state.game_over

\* C4: create_game stores, under an identifier that was no key of the store,
\* the initial state (bishop c3, rook h1, no rounds, round 0, not over, no
\* winner), returns that state, and leaves every other session as it was.
C4_CreateGame ==
    [][response'.op = "create_game" =>
          LET game_id == response'.game_id
          IN  /\ game_id \notin DOMAIN games
              /\ DOMAIN games' = DOMAIN games \cup {game_id}
              /\ games'[game_id].state = InitialState(game_id)
              /\ response'.status = 200
              /\ response'.body = InitialState(game_id)
              /\ \A other \in DOMAIN games : games'[other] = games[other]]_vars

\* C4 witness: a game just created next to a session that has played a round
C4_Witness ==
    \E game_id, other \in Sessions :
        /\ game_id # other
        /\ response = Ok("create_game", game_id, InitialState(game_id))
        /\ games[game_id].state = InitialState(game_id)
        /\ games[other].state.current_round = 1

\* C5: fifteen rounds without a capture end the game with the rook as winner
\* and a history of fifteen rounds; fewer rounds without a capture leave the
\* game open and without a winner.
C5_RookSurvives ==
    \A id \in Sessions :
        LET game_state == games[id].state
        IN  NoCapture(game_state) =>
              /\ Len(game_state.rounds) <= 15
              /\ Len(game_state.rounds) = 15 =>
                    game_state.game_over /\ game_state.winner = RookWins
              /\ Len(game_state.rounds) < 15 =>
                    ~game_state.game_over /\ game_state.winner = None

\* C5 witness: fifteen rounds played, none captured, the rook has won
C5_Witness ==
    \E id \in Sessions :
        /\ Len(games[id].state.rounds) = 15
        /\ NoCapture(games[id].state)
        /\ games[id].state.winner = RookWins
        /\ response = Ok("play_round", id, games[id].state)

\* the square is on a diagonal of the bishop's square (2,2), at nonzero offset
OnBishopDiagonal(position) ==
    \E k \in 1 .. 7 :
        /\ position.x = 2 + k \/ position.x = 2 - k
        /\ position.y = 2 + k \/ position.y = 2 - k

\* C6 (state part): a round that lands the rook on a diagonal of the bishop is
\* recorded as captured, is the last round, and ends the game for the bishop.
C6_Captured ==
    \A id \in Sessions :
        LET game_state == games[id].state
        IN  \A i \in DOMAIN game_state.rounds :
                OnBishopDiagonal(game_state.rounds[i].rook_position_after) =>
                    /\ game_state.rounds[i].captured
                    /\ i = Len(game_state.rounds)
                    /\ game_state.game_over
                    /\ game_state.winner = BishopWins

\* C6 (step part): once a round has landed on a diagonal, play_round no longer
\* changes the store.
C6_Frozen ==
    \A id \in Sessions :
        (/\ PlayRoundStep(id)
         /\ games[id].state.rounds # <<>>
         /\ OnBishopDiagonal(LastRound(games[id].state).rook_position_after))
            => games' = games

\* C6: landing on a diagonal of the bishop captures, ends the game for the
\* bishop in the same call, and later play_round calls change nothing.
C6_DiagonalCapture == []C6_Captured /\ [][C6_Frozen]_vars

\* C6 witness: the rook went right from h1 to e1 (4,0), on the bishop's
\* anti-diagonal, and was captured
C6_Witness ==
    \E id \in Sessions :
        /\ games[id].state.rounds # <<>>
        /\ LastRound(games[id].state).rook_position_after.x = 4
        /\ LastRound(games[id].state).rook_position_after.y = 0
        /\ LastRound(games[id].state).captured
        /\ games[id].state.winner = BishopWins
        /\ response = Ok("play_round", id, games[id].state)

\* C7: a reset of a stored session stores and returns the initial state under
\* the same game_id, with a fresh board whose rook is on (7,0) and whose bishop
\* is on (2,2); the stored pair is the one create_game would have stored.
C7_Reset ==
    [][\A id \in Sessions :
          response'.op = "reset_game" /\ response'.game_id = id =>
              /\ response'.status = 200
              /\ response'.body = InitialState(id)
              /\ games'[id].state = InitialState(id)
              /\ games'[id].board.rook.x = 7 /\ games'[id].board.rook.y = 0
              /\ games'[id].board.bishop.x = 2 /\ games'[id].board.bishop.y = 2
              /\ games'[id] = GameService_create_game(EmptyStore, id)[id]]_vars

\* C7 witness: a reset of a stored session has been answered with the initial
\* state, and the store holds that state with the rook back on (7,0)
C7_Witness ==
    \E id \in Sessions :
        /\ response = Ok("reset_game", id, InitialState(id))
        /\ games[id].state = InitialState(id)
        /\ games[id].board.rook.x = 7

\* C8: get, play_round and reset on an identifier that is no key of the store
\* answer 404 "Game not found" and leave the store as it was.
C8_NotFound ==
    [][(/\ response'.op \in {"get_game", "play_round", "reset_game"}
        /\ response'.game_id \notin DOMAIN games)
          => /\ response'.status = 404
             /\ response'.body = [detail |-> "Game not found"]
             /\ games' = games]_vars

\* C8 witness: a reset of an unknown identifier answered 404 while the store
\* holds a session with a recorded round
C8_Witness ==
    /\ response.op = "reset_game"
    /\ response.status = 404
    /\ response.game_id \notin Sessions
    /\ \E id \in Sessions : games[id].state.current_round = 1

\* value is the residue of n modulo 8: in 0..7 and a multiple of 8 below n
IsResidue(value, n) ==
    /\ value \in 0 .. 7
    /\ \E k \in 0 .. n : n = value + 8 * k

\* C9: for x, y in 0..7 and a magnitude >= 0, wrap_coordinates(x + magnitude, y)
\* is ((x + magnitude) mod 8, y) and wrap_coordinates(x, y + magnitude) is
\* (x, (y + magnitude) mod 8), both inside 0..7.
C9_Wrap ==
    /\ result.fn = "right" =>
          /\ IsResidue(result.value[1], args.x + args.magnitude)
          /\ result.value[2] = args.y
    /\ result.fn = "up" =>
          /\ result.value[1] = args.x
          /\ IsResidue(result.value[2], args.y + args.magnitude)

\* C9 witness: a move up by the largest dice total, 12, from rank index 7,
\* which wraps twice and ends on 3
C9_Witness ==
    /\ result.fn = "up"
    /\ args.y = 7
    /\ args.magnitude = 12
    /\ result.value = <<args.x, 3>>

\* the target is on a diagonal of (x, y), away from it
Diagonal(x, y, target_x, target_y) ==
    \E k \in 1 .. 7 :
        /\ target_x = x + k \/ target_x = x - k
        /\ target_y = y + k \/ target_y = y - k

\* C10: Bishop.can_capture is true exactly on the diagonals at nonzero offset,
\* Rook.can_capture exactly when one coordinate matches and the other does
\* not; both are false on the piece's own square.
C10_CanCapture ==
    LET own == args.x = args.target_x /\ args.y = args.target_y
    IN  /\ result.fn = "bishop" =>
              /\ result.value = Diagonal(args.x, args.y, args.target_x, args.target_y)
              /\ own => result.value = FALSE
        /\ result.fn = "rook" =>
              /\ result.value = ((args.x = args.target_x) # (args.y = args.target_y))
              /\ own => result.value = FALSE

\* C10 witness: the bishop on c3 asked about its own square (2,2), where a
\* rook that landed there would stand: no capture
C10_Witness ==
    /\ result.fn = "bishop"
    /\ args.x = 2 /\ args.y = 2
    /\ args.target_x = 2 /\ args.target_y = 2
    /\ result.value = FALSE

\* chess notation of the squares, written out: file letter by x, rank by y
Notation ==
    {<<"a", 0>>, <<"b", 1>>, <<"c", 2>>, <<"d", 3>>,
     <<"e", 4>>, <<"f", 5>>, <<"g", 6>>, <<"h", 7>>}

WellFormed(position) ==
    /\ position.x \in 0 .. 7
    /\ position.y \in 0 .. 7
    /\ <<position.file, position.x>> \in Notation
    /\ position.rank = position.y + 1
    /\ position.rank \in 1 .. 8

\* C11: every Position a session exposes (bishop_position, rook_position, and
\* the before and after positions of every recorded round) has x and y in
\* 0..7, file the x-th letter of a..h and rank y + 1.
C11_Positions ==
    \A id \in Sessions :
        LET game_state == games[id].state
        IN  /\ WellFormed(game_state.bishop_position)
            /\ WellFormed(game_state.rook_position)
            /\ \A i \in DOMAIN game_state.rounds :
                  /\ WellFormed(game_state.rounds[i].rook_position_before)
                  /\ WellFormed(game_state.rounds[i].rook_position_after)

\* C11 witness: a recorded round that wrapped around the top edge: the rook
\* went up from rank 8 and is back on a lower rank
C11_Witness ==
    \E id \in Sessions :
        \E i \in DOMAIN games[id].state.rounds :
            LET round == games[id].state.rounds[i]
            IN  /\ round.coin_toss.direction = "up"
                /\ round.rook_position_before.rank = 8
                /\ round.rook_position_after.rank < 8

\* C12 as stated: once a session is terminal it stays terminal and records no
\* further round, whatever operation follows (reset included).
C12_Original ==
    [][\A id \in Sessions :
          games[id].state.game_over =>
              /\ games'[id].state.game_over
              /\ games'[id].state.rounds = games[id].state.rounds]_vars

\* C12 amended: once a session is terminal, every operation other than a reset
\* of that session leaves its stored state and board as they are; a reset of it
\* replaces it by the initial, non-terminal session.
C12_TerminalUntilReset ==
    [][\A id \in Sessions :
          games[id].state.game_over =>
              IF response'.op = "reset_game" /\ response'.game_id = id
              THEN games'[id].state = InitialState(id)
              ELSE games'[id] = games[id]]_vars

\* C12 witness: a session that ended by capture is still terminal, with its
\* one round, after another game has been created
C12_Witness ==
    \E id, other \in Sessions :
        /\ id # other
        /\ games[id].state.game_over
        /\ Len(games[id].state.rounds) = 1
        /\ response.op = "create_game"
        /\ response.game_id = other

\* C14: in every recorded round the rook's position after the move is the
\* position before it with the dice total added, modulo 8, to y when the
\* direction is "up" and to x when it is "right", the other coordinate kept;
\* the direction is "up" exactly for "heads"; the total is die1 + die2 with
\* both dice in 1..6.
C14_Move ==
    \A id \in Sessions :
        \A i \in DOMAIN games[id].state.rounds :
            LET round == games[id].state.rounds[i]
                before == round.rook_position_before
                after == round.rook_position_after
                total == round.dice_roll.total
            IN  /\ round.coin_toss.result \in {"heads", "tails"}
                /\ round.coin_toss.direction \in {"up", "right"}
                /\ round.coin_toss.direction = "up" <=> round.coin_toss.result = "heads"
                /\ round.dice_roll.die1 \in 1 .. 6
                /\ round.dice_roll.die2 \in 1 .. 6
                /\ total = round.dice_roll.die1 + round.dice_roll.die2
                /\ round.coin_toss.direction = "up" =>
                      after.x = before.x /\ IsResidue(after.y, before.y + total)
                /\ round.coin_toss.direction = "right" =>
                      after.y = before.y /\ IsResidue(after.x, before.x + total)

\* C14 witness: a round with a total of 8, which leaves the rook where it was
C14_Witness ==
    \E id \in Sessions :
        \E i \in DOMAIN games[id].state.rounds :
            /\ games[id].state.rounds[i].dice_roll.total = 8
            /\ games[id].state.rounds[i].rook_position_after
                  = games[id].state.rounds[i].rook_position_before

\* the Position says where the piece of the board stands
ShowsPiece(position, piece) ==
    /\ position.x = piece.x
    /\ position.y = piece.y
    /\ <<position.file, piece.x>> \in Notation
    /\ position.rank = piece.y + 1

\* C15: for every stored session the state shows the board: rook_position is
\* where the board's rook is, bishop_position where its bishop is, and with a
\* non-empty history rook_position is the last round's position after the move.
C15_InSync ==
    \A id \in Sessions :
        LET game_state == games[id].state
            board == games[id].board
        IN  /\ ShowsPiece(game_state.rook_position, board.rook)
            /\ ShowsPiece(game_state.bishop_position, board.bishop)
            /\ game_state.rounds # <<>> =>
                  game_state.rook_position = LastRound(game_state).rook_position_after

\* C15 witness: after two rounds the rook has left h1 and the state shows it
C15_Witness ==
    \E id \in Sessions :
        /\ Len(games[id].state.rounds) = 2
        /\ games[id].board.rook.x # 7
        /\ games[id].board.rook.y # 0
        /\ games[id].state.rook_position.x = games[id].board.rook.x
        /\ response = Ok("play_round", id, games[id].state)

\* the history `new` is the history `old` with one round appended
OneAppended(old, new) ==
    /\ Len(new) = Len(old) + 1
    /\ \A i \in DOMAIN old : new[i] = old[i]

\* C16: a play_round on a non-terminal session appends exactly one round and
\* leaves the recorded rounds as they were; a history changes in no other way,
\* except that a reset of the session empties it.
C16_AppendOnly ==
    [][\A id \in Sessions :
          LET old == games[id].state.rounds
              new == games'[id].state.rounds
          IN  /\ PlayRoundStep(id) /\ ~games[id].state.game_over =>
                    OneAppended(old, new)
              /\ new # old =>
                    \/ PlayRoundStep(id) /\ OneAppended(old, new)
                    \/ /\ response'.op = "reset_game"
                       /\ response'.game_id = id
                       /\ new = <<>>]_vars

\* C16 witness: a fourth round has just been appended
C16_Witness ==
    \E id \in Sessions :
        /\ Len(games[id].state.rounds) = 4
        /\ response = Ok("play_round", id, games[id].state)

\* C17: in every session the board's bishop stands on (2,2) and
\* bishop_position is c3.
C17_BishopFixed ==
    \A id \in Sessions :
        /\ games[id].board.bishop.x = 2
        /\ games[id].board.bishop.y = 2
        /\ games[id].state.bishop_position = [file |-> "c", rank |-> 3, x |-> 2, y |-> 2]

\* C17 witness: the rook has moved up the h-file to h3, on the bishop's rank,
\* and the bishop is still on c3
C17_Witness ==
    \E id \in Sessions :
        /\ games[id].state.rounds # <<>>
        /\ games[id].board.rook.x = 7
        /\ games[id].board.rook.y = 2
        /\ games[id].board.bishop.x = 2
        /\ games[id].board.bishop.y = 2

\* C18: the first round of a history starts on h1 (7,0), and every later round
\* starts where the round before it ended.
C18_Path ==
    \A id \in Sessions :
        LET rounds == games[id].state.rounds
        IN  \A i \in DOMAIN rounds :
                IF i = 1
                THEN rounds[i].rook_position_before
                        = [file |-> "h", rank |-> 1, x |-> 7, y |-> 0]
                ELSE rounds[i].rook_position_before
                        = rounds[i - 1].rook_position_after

\* C18 witness: a third round that starts on d1 (3,0), where the second
\* round ended, not on h1
C18_Witness ==
    \E id \in Sessions :
        /\ Len(games[id].state.rounds) = 3
        /\ games[id].state.rounds[3].rook_position_before.x = 3
        /\ games[id].state.rounds[3].rook_position_before.y = 0
        /\ games[id].state.rounds[2].rook_position_after.x = 3

\* C19: the winner is unset exactly while the game is open; it is the bishop
\* exactly when the last round captured, the rook exactly when current_round
\* is 15 and no round captured; only the last round can have captured.
C19_Winner ==
    \A id \in Sessions :
        LET game_state == games[id].state
        IN  /\ game_state.winner = None <=> ~game_state.game_over
            /\ game_state.winner = BishopWins <=> LastCaptured(game_state)
            /\ game_state.winner = RookWins <=>
                  (game_state.current_round = 15 /\ NoCapture(game_state))
            /\ \A i \in DOMAIN game_state.rounds :
                  game_state.rounds[i].captured => i = Len(game_state.rounds)

\* C19 witness: a game the bishop won on its seventh round, no round before
\* it having captured
C19_Witness ==
    \E id \in Sessions :
        /\ Len(games[id].state.rounds) = 7
        /\ games[id].state.rounds[7].captured
        /\ games[id].state.winner = BishopWins
        /\ games[id].state.game_over

\* C20: no operation removes an identifier from the store; get, play_round
\* and reset on one identifier leave every other stored session (state and
\* board) as it was; get on a stored identifier answers 200 with its state.
C20_Independent ==
    [][/\ DOMAIN games \subseteq DOMAIN games'
       /\ response'.op \in {"get_game", "play_round", "reset_game"} =>
             \A other \in DOMAIN games \ {response'.game_id} :
                 games'[other] = games[other]
       /\ response'.op = "get_game" /\ response'.game_id \in DOMAIN games =>
             /\ response'.status = 200
             /\ response'.body = games[response'.game_id].state]_vars

\* C20 witness: one session has just been reset while the other keeps the
\* round it recorded
C20_Witness ==
    \E id, other \in Sessions :
        /\ id # other
        /\ response = Ok("reset_game", id, InitialState(id))
        /\ Len(games[other].state.rounds) = 1
        /\ games[other].board.rook # Board.rook

\* the GameState and the Board the store holds for game_id in SpecRace
StoredState(game_id) == heap[games[game_id].state].state
StoredBoard(game_id) == heap[games[game_id].board].board

\* the play_round in flight has looked up a pair that a reset has since replaced
Overtaken ==
    /\ frames.play.pc # "idle"
    /\ frames.play.state # games[RaceId].state

\* C13 (one pair): the stored state and the stored board were built together,
\* by one operation.
C13_OnePair ==
    \A id \in DOMAIN games :
        /\ games[id].state = games[id].board
        /\ games[id].state \in DOMAIN heap

\* C13 (last write wins): when reset has written the entry after play_round
\* looked up its pair, the store holds the initial session and shows nothing
\* of the round being played.
C13_LastWrite ==
    Overtaken =>
        /\ StoredState(RaceId) = InitialState(RaceId)
        /\ StoredBoard(RaceId).rook.x = 7
        /\ StoredBoard(RaceId).rook.y = 0

\* C13 (complete): with no request in flight the stored pair is complete: the
\* state counts its rounds and shows the board it is stored with.
C13_Complete ==
    (frames.play.pc = "idle" /\ frames.reset.pc = "idle") =>
        LET game_state == StoredState(RaceId)
        IN  /\ Len(game_state.rounds) = game_state.current_round
            /\ ShowsPiece(game_state.rook_position, StoredBoard(RaceId).rook)
            /\ game_state.rounds # <<>> =>
                  game_state.rook_position = LastRound(game_state).rook_position_after

\* C13: a play_round and a reset of the same game, interleaved statement by
\* statement, leave one complete pair written by a single operation in the
\* store; a reset that writes after the play_round's lookup wins, and the
\* stored state and board never come from different operations.
C13_RaceOutcome == C13_OnePair /\ C13_LastWrite /\ C13_Complete

\* C13 witness: both requests have returned, play_round last and with a round
\* in its answer, and the store holds the initial session
C13_Witness ==
    /\ frames.play.pc = "idle"
    /\ frames.reset.pc = "idle"
    /\ response.op = "play_round"
    /\ response.status = 200
    /\ Len(response.body.rounds) = 1
    /\ StoredState(RaceId) = InitialState(RaceId)
    /\ StoredBoard(RaceId).rook.x = 7

====
